---- MODULE Spec2Model ----
(***************************************************************************)
(* Feature flags with a dependency graph (ScalesOps, backend/featureflag). *)
(*                                                                         *)
(* The store is the three tables of the Django application:                *)
(*   flags : FeatureFlag rows in primary-key order (a row's id is its      *)
(*           index; rows are never deleted),                               *)
(*   edges : Dependency rows in primary-key order,                         *)
(*   log   : AuditLog rows in primary-key order.                           *)
(* `last` is the request most recently answered and its response, `prev`   *)
(* the three tables as they were when that request arrived.                *)
(* `procs` are the requests in flight when several workers serve requests  *)
(* at once, `reader` is a GET request evaluated query by query, `trail`    *)
(* the requests of a short session with their responses, oldest first.     *)
(***************************************************************************)
EXTENDS Integers, Sequences, FiniteSets, TLC

VARIABLES flags, edges, log, last, prev, procs, reader, trail

storeVars == <<flags, edges, log>>
vars == <<flags, edges, log, last, prev, procs, reader, trail>>

(* Bounds of the model: flags created from an empty store, source titles   *)
(* listed in one create request, flags of a loaded graph.                  *)
MaxFlags == 3
MaxDeps == 2
GraphFlags == 4
NumProcs == 2
ConcFlags == 2
TrailLen == 3
MaxCalls == 2

(* Titles a client may send; the i-th flag created gets the i-th title.    *)
Titles == <<"FlagA", "FlagB", "FlagC", "FlagD", "FlagE", "FlagF">>
UnknownTitle == "NoSuchFlag"

(* The value of a primary key that names no row.                           *)
NoFlag == 0

(***************************************************************************)
(* Table lookups.                                                          *)
(***************************************************************************)
Exists(fl, f) == f \in DOMAIN fl

TitlesOf(fl) == {fl[i].title : i \in DOMAIN fl}

(* FeatureFlag.objects.get(title=...) : the id of the row with that title. *)
GetByTitle(fl, t) == CHOOSE i \in DOMAIN fl : fl[i].title = t

(* flag.dependency_rules_as_dependent.all() : the rows whose dependent is  *)
(* f, in table order.                                                      *)
dependency_rules_as_dependent(ed, f) ==
    SelectSeq(ed, LAMBDA r : r.dependent_flag = f)

(* flag.dependency_rules_as_source.all() *)
dependency_rules_as_source(ed, f) ==
    SelectSeq(ed, LAMBDA r : r.source_flag = f)

Range(s) == {s[i] : i \in DOMAIN s}

Sources(ed, f) == {r.source_flag : r \in Range(dependency_rules_as_dependent(ed, f))}
Dependents(ed, f) == {r.dependent_flag : r \in Range(dependency_rules_as_source(ed, f))}

HasRow(ed, d, s) ==
    \E i \in DOMAIN ed : ed[i].dependent_flag = d /\ ed[i].source_flag = s

Rule(d, s) == [dependent_flag |-> d, source_flag |-> s]

(***************************************************************************)
(* The edge table as a graph: the flags a flag depends on, directly or     *)
(* through other flags, and the flags that depend on it.                   *)
(***************************************************************************)
RECURSIVE Closure(_, _, _, _)

Closure(ed, Step(_, _), frontier, seen) ==
    LET next == UNION {Step(ed, f) : f \in frontier} \ seen
    IN IF next = {} THEN seen ELSE Closure(ed, Step, next, seen \cup next)

TransitiveSources(ed, f) == Closure(ed, Sources, {f}, {})

TransitiveDependents(ed, f) == Closure(ed, Dependents, {f}, {})

Nodes(ed) == UNION {{ed[i].dependent_flag, ed[i].source_flag} : i \in DOMAIN ed}

Acyclic(ed) == \A f \in Nodes(ed) : f \notin TransitiveSources(ed, f)

(***************************************************************************)
(* Dependency._find_path_and_detect_cycle: depth-first search from         *)
(* current_node for target_node along depends-on edges. visited and        *)
(* path_list are the two mutable arguments; the result carries them back.  *)
(* The field expansions of the result counts the executions of             *)
(* visited.add(current_node): the nodes whose rules the call and the calls *)
(* below it went through.                                                  *)
(***************************************************************************)
RECURSIVE find_path_and_detect_cycle(_, _, _, _, _)
RECURSIVE find_path_loop(_, _, _, _, _)

(* Variant of the search that leaves a node on path_list when the search   *)
(* below it fails.                                                         *)
find_path_and_detect_cycle_NoPop(ed, current_node, target_node, visited, path_list) ==
    IF current_node = target_node
    THEN [found |-> TRUE, visited |-> visited,
          path_list |-> Append(path_list, current_node), expansions |-> 0]
    ELSE IF current_node \in visited
    THEN [found |-> FALSE, visited |-> visited, path_list |-> path_list,
          expansions |-> 0]
    ELSE LET r == find_path_loop(ed,
                      dependency_rules_as_dependent(ed, current_node),
                      target_node,
                      visited \cup {current_node},
                      Append(path_list, current_node))
         IN [r EXCEPT !.expansions = @ + 1]

(* Variant of the search that takes a node met a second time for the      *)
(* target.                                                                 *)
find_path_and_detect_cycle_Revisit(ed, current_node, target_node, visited, path_list) ==
    IF current_node = target_node \/ current_node \in visited
    THEN [found |-> TRUE, visited |-> visited,
          path_list |-> Append(path_list, current_node), expansions |-> 0]
    ELSE LET r == find_path_loop(ed,
                      dependency_rules_as_dependent(ed, current_node),
                      target_node,
                      visited \cup {current_node},
                      Append(path_list, current_node))
         IN IF r.found
            THEN [r EXCEPT !.expansions = @ + 1]
            ELSE [r EXCEPT !.path_list = SubSeq(@, 1, Len(@) - 1),
                           !.expansions = @ + 1]

find_path_and_detect_cycle(ed, current_node, target_node, visited, path_list) ==
    IF current_node = target_node
    THEN [found |-> TRUE, visited |-> visited,
          path_list |-> Append(path_list, current_node), expansions |-> 0]
    ELSE IF current_node \in visited
    THEN [found |-> FALSE, visited |-> visited, path_list |-> path_list,
          expansions |-> 0]
    ELSE LET r == find_path_loop(ed,
                      dependency_rules_as_dependent(ed, current_node),
                      target_node,
                      visited \cup {current_node},
                      Append(path_list, current_node))
         IN IF r.found
            THEN [r EXCEPT !.expansions = @ + 1]
            ELSE [r EXCEPT !.path_list = SubSeq(@, 1, Len(@) - 1),
                           !.expansions = @ + 1]

(* The for loop of _find_path_and_detect_cycle over the rules of a node.   *)
find_path_loop(ed, rules, target_node, visited, path_list) ==
    IF rules = <<>>
    THEN [found |-> FALSE, visited |-> visited, path_list |-> path_list,
          expansions |-> 0]
    ELSE LET r == find_path_and_detect_cycle(ed, Head(rules).source_flag,
                      target_node, visited, path_list)
         IN IF r.found
            THEN r
            ELSE LET rest == find_path_loop(ed, Tail(rules), target_node,
                                            r.visited, r.path_list)
                 IN [rest EXCEPT !.expansions = @ + r.expansions]

(***************************************************************************)
(* Dependency.clean: the self-dependency test, then the cycle search.      *)
(* Result: the error raised ("ok" when none), the reported cycle path      *)
(* (dependent first), whether the search ran, and the visited set and the  *)
(* number of expansions the search ended with.                             *)
(***************************************************************************)
(* Variants of clean with one of its tests broken. *)
Dependency_clean_NoSearch(ed, d, s) ==
    IF d = s
    THEN [error |-> "SelfDependency", path |-> <<>>, searched |-> FALSE,
          visited |-> {}, expansions |-> 0]
    ELSE [error |-> "ok", path |-> <<>>, searched |-> FALSE,
          visited |-> {}, expansions |-> 0]

Dependency_clean_DirectOnly(ed, d, s) ==
    IF d = s
    THEN [error |-> "SelfDependency", path |-> <<>>, searched |-> FALSE,
          visited |-> {}, expansions |-> 0]
    ELSE IF HasRow(ed, s, d)
    THEN [error |-> "CycleDetected", path |-> <<d, s, d>>, searched |-> TRUE,
          visited |-> {}, expansions |-> 0]
    ELSE [error |-> "ok", path |-> <<>>, searched |-> TRUE,
          visited |-> {}, expansions |-> 0]

Dependency_clean_NoSelfTest(ed, d, s) ==
    LET r == find_path_and_detect_cycle(ed, s, d, {}, <<>>)
    IN IF r.found /\ r.path_list # <<>>
       THEN [error |-> "CycleDetected", path |-> <<d>> \o r.path_list,
             searched |-> TRUE,
             visited |-> r.visited, expansions |-> r.expansions]
       ELSE [error |-> "ok", path |-> <<>>, searched |-> TRUE,
             visited |-> r.visited, expansions |-> r.expansions]

Dependency_clean_OneOrder(ed, d, s) ==
    IF d = s
    THEN [error |-> "SelfDependency", path |-> <<>>, searched |-> FALSE,
          visited |-> {}, expansions |-> 0]
    ELSE LET r == find_path_and_detect_cycle(ed, s, d, {}, <<>>)
         IN IF d < s /\ r.found /\ r.path_list # <<>>
            THEN [error |-> "CycleDetected", path |-> <<d>> \o r.path_list,
                  searched |-> TRUE,
                  visited |-> r.visited, expansions |-> r.expansions]
            ELSE [error |-> "ok", path |-> <<>>, searched |-> TRUE,
                  visited |-> r.visited, expansions |-> r.expansions]

Dependency_clean(ed, d, s) ==
    IF d = s
    THEN [error |-> "SelfDependency", path |-> <<>>, searched |-> FALSE,
          visited |-> {}, expansions |-> 0]
    ELSE LET r == find_path_and_detect_cycle(ed, s, d, {}, <<>>)
         IN IF r.found /\ r.path_list # <<>>
            THEN [error |-> "CycleDetected", path |-> <<d>> \o r.path_list,
                  searched |-> TRUE,
                  visited |-> r.visited, expansions |-> r.expansions]
            ELSE [error |-> "ok", path |-> <<>>, searched |-> TRUE,
                  visited |-> r.visited, expansions |-> r.expansions]

(* Dependency.save: full_clean() (clean, then the unique_together          *)
(* validation), then the insert.                                           *)
Dependency_full_clean(ed, d, s) ==
    LET c == Dependency_clean(ed, d, s)
    IN IF c.error # "ok" THEN c
       ELSE IF HasRow(ed, d, s)
       THEN [error |-> "DuplicateEdge", path |-> <<>>, searched |-> c.searched,
             visited |-> c.visited, expansions |-> c.expansions]
       ELSE c

(***************************************************************************)
(* FeatureFlag._check_dependencies_recursively / can_be_active / is_active *)
(* visited_flags holds titles; every recursive call gets its own copy, so  *)
(* the iterations of the loop do not affect one another.                   *)
(***************************************************************************)
RECURSIVE check_dependencies_recursively(_, _, _, _)

check_dependencies_recursively(fl, ed, f, visited_flags) ==
    IF fl[f].title \in visited_flags
    THEN FALSE
    ELSE \A s \in Sources(ed, f) :
            /\ fl[s].is_enabled
            /\ check_dependencies_recursively(fl, ed, s,
                   visited_flags \cup {fl[f].title})

(* Variant of can_be_active that looks one edge deep only. *)
can_be_active_DirectOnly(fl, ed, f) ==
    \A s \in Sources(ed, f) : fl[s].is_enabled

can_be_active(fl, ed, f) == check_dependencies_recursively(fl, ed, f, {})

(* Variant of is_active that tests the flag's own bit only when it has no  *)
(* dependencies.                                                           *)
is_active_DependenciesOnly(fl, ed, f) ==
    IF Sources(ed, f) = {} THEN fl[f].is_enabled ELSE can_be_active(fl, ed, f)

is_active(fl, ed, f) ==
    IF ~fl[f].is_enabled THEN FALSE ELSE can_be_active(fl, ed, f)

(* FeatureFlag.clean for an instance whose in-memory is_enabled is          *)
(* `enabled` (the row in the table is not yet written).                     *)
FeatureFlag_clean_NoCheck(fl, ed, f, enabled) == "ok"

(* Variant of clean that tests the dependencies whatever the new bit is.   *)
FeatureFlag_clean_AnyBit(fl, ed, f, enabled) ==
    IF ~can_be_active(fl, ed, f)
    THEN "UnmetDependencies"
    ELSE "ok"

FeatureFlag_clean(fl, ed, f, enabled) ==
    IF enabled /\ ~can_be_active(fl, ed, f)
    THEN "UnmetDependencies"
    ELSE "ok"

(***************************************************************************)
(* FeatureFlag._find_blocking_dependencies: the flags FeatureFlag.clean    *)
(* names in its error. visited (primary keys) and blocking_list are the    *)
(* two mutable arguments, shared by all the calls of one traversal.        *)
(***************************************************************************)
RECURSIVE find_blocking_dependencies(_, _, _, _, _)
RECURSIVE find_blocking_loop(_, _, _, _, _)

find_blocking_dependencies(fl, ed, f, visited, blocking_list) ==
    IF f \in visited
    THEN [visited |-> visited, blocking_list |-> blocking_list]
    ELSE find_blocking_loop(fl, ed, dependency_rules_as_dependent(ed, f),
                            visited \cup {f}, blocking_list)

(* The for loop of _find_blocking_dependencies over the rules of a flag.   *)
find_blocking_loop(fl, ed, rules, visited, blocking_list) ==
    IF rules = <<>>
    THEN [visited |-> visited, blocking_list |-> blocking_list]
    ELSE LET source_flag == Head(rules).source_flag
             r == IF ~fl[source_flag].is_enabled
                  THEN [visited |-> visited,
                        blocking_list |-> Append(blocking_list, source_flag)]
                  ELSE IF ~can_be_active(fl, ed, source_flag)
                  THEN find_blocking_dependencies(fl, ed, source_flag,
                                                  visited, blocking_list)
                  ELSE [visited |-> visited, blocking_list |-> blocking_list]
         IN find_blocking_loop(fl, ed, Tail(rules), r.visited, r.blocking_list)

(* blocking_dependencies of FeatureFlag.clean: the traversal from the flag *)
(* with an empty visited set and an empty list.                            *)
blocking_dependencies(fl, ed, f) ==
    find_blocking_dependencies(fl, ed, f, {}, <<>>).blocking_list

(***************************************************************************)
(* Requests and responses.                                                 *)
(***************************************************************************)
NoRequest ==
    [op |-> "none", flag |-> NoFlag, source |-> NoFlag, title |-> "",
     deps |-> <<>>, outcome |-> "none", path |-> <<>>, searched |-> FALSE,
     is_active |-> FALSE, is_enabled |-> FALSE, blockers |-> <<>>,
     visited |-> {}, expansions |-> 0]

Response(op, flag, source, title, deps, outcome, path, searched) ==
    [op |-> op, flag |-> flag, source |-> source, title |-> title,
     deps |-> deps, outcome |-> outcome, path |-> path, searched |-> searched,
     is_active |-> FALSE, is_enabled |-> FALSE, blockers |-> <<>>,
     visited |-> {}, expansions |-> 0]

Store == [flags |-> flags, edges |-> edges, log |-> log]

(* The response is sent; the tables the request found are remembered.      *)
Answer(r) ==
    /\ last' = r
    /\ prev' = Store

(* A worker that serves no request, and the GET request not yet sent.      *)
IdleProc ==
    [pc |-> "idle", op |-> "none", flag |-> NoFlag, source |-> NoFlag,
     title |-> "", is_enabled |-> FALSE, outcome |-> "none"]

IdleReader ==
    [pc |-> "idle", flag |-> NoFlag, stack |-> <<>>, result |-> FALSE,
     snapshots |-> {}]

Procs == 1..NumProcs

Init ==
    /\ flags = <<>>
    /\ edges = <<>>
    /\ log = <<>>
    /\ last = NoRequest
    /\ prev = Store
    /\ procs = [p \in Procs |-> IdleProc]
    /\ reader = IdleReader
    /\ trail = <<>>

(***************************************************************************)
(* POST /api/dependencies/ : DependencySerializer validation (both primary *)
(* keys exist, the pair is unique), then Dependency.save.                  *)
(***************************************************************************)
(* Variant of the request whose cycle search follows only the rules of     *)
(* enabled flags.                                                          *)
AddDependency_EnabledOnly(d, s) ==
    LET FromEnabled(rule) == flags[rule.dependent_flag].is_enabled
        c == IF Exists(flags, d) /\ Exists(flags, s)
             THEN Dependency_full_clean(SelectSeq(edges, FromEnabled), d, s)
             ELSE Dependency_full_clean(<<>>, d, s)
        reply(outcome) ==
            [Response("AddDependency", d, s, "", <<>>, outcome, c.path,
                      c.searched)
             EXCEPT !.visited = c.visited, !.expansions = c.expansions]
    IN IF ~Exists(flags, d) \/ ~Exists(flags, s)
       THEN /\ Answer(Response("AddDependency", d, s, "", <<>>, "NotFound",
                                <<>>, FALSE))
            /\ UNCHANGED storeVars
       ELSE IF HasRow(edges, d, s)
       THEN /\ Answer(Response("AddDependency", d, s, "", <<>>,
                                "DuplicateEdge", <<>>, FALSE))
            /\ UNCHANGED storeVars
       ELSE IF c.error # "ok"
       THEN /\ Answer(reply(c.error))
            /\ UNCHANGED storeVars
       ELSE /\ edges' = Append(edges, Rule(d, s))
            /\ Answer(reply("Created"))
            /\ UNCHANGED <<flags, log>>

(* Variant of the request that disables the dependent when the new rule    *)
(* leaves it enabled but not active.                                       *)
AddDependency_DisableDependent(d, s) ==
    LET c == Dependency_full_clean(edges, d, s)
        reply(outcome) ==
            [Response("AddDependency", d, s, "", <<>>, outcome, c.path,
                      c.searched)
             EXCEPT !.visited = c.visited, !.expansions = c.expansions]
    IN IF ~Exists(flags, d) \/ ~Exists(flags, s)
       THEN /\ Answer(Response("AddDependency", d, s, "", <<>>, "NotFound",
                                <<>>, FALSE))
            /\ UNCHANGED storeVars
       ELSE IF HasRow(edges, d, s)
       THEN /\ Answer(Response("AddDependency", d, s, "", <<>>,
                                "DuplicateEdge", <<>>, FALSE))
            /\ UNCHANGED storeVars
       ELSE IF c.error # "ok"
       THEN /\ Answer(reply(c.error))
            /\ UNCHANGED storeVars
       ELSE /\ edges' = Append(edges, Rule(d, s))
            /\ flags' = IF is_active(flags, edges, s)
                        THEN flags
                        ELSE [flags EXCEPT ![d].is_enabled = FALSE]
            /\ Answer(reply("Created"))
            /\ UNCHANGED log

(* Variant of the request whose search starts from the visited set the     *)
(* search of the request before it ended with.                             *)
AddDependency_SharedVisited(d, s) ==
    LET r == find_path_and_detect_cycle(edges, s, d, last.visited, <<>>)
        cycle == d # s /\ r.found /\ r.path_list # <<>>
        reply(outcome) ==
            [Response("AddDependency", d, s, "", <<>>, outcome,
                      IF cycle THEN <<d>> \o r.path_list ELSE <<>>, d # s)
             EXCEPT !.visited = IF d # s THEN r.visited ELSE {},
                    !.expansions = IF d # s THEN r.expansions ELSE 0]
    IN IF ~Exists(flags, d) \/ ~Exists(flags, s)
       THEN /\ Answer(Response("AddDependency", d, s, "", <<>>, "NotFound",
                                <<>>, FALSE))
            /\ UNCHANGED storeVars
       ELSE IF HasRow(edges, d, s)
       THEN /\ Answer(Response("AddDependency", d, s, "", <<>>,
                                "DuplicateEdge", <<>>, FALSE))
            /\ UNCHANGED storeVars
       ELSE IF d = s
       THEN /\ Answer(reply("SelfDependency"))
            /\ UNCHANGED storeVars
       ELSE IF cycle
       THEN /\ Answer(reply("CycleDetected"))
            /\ UNCHANGED storeVars
       ELSE /\ edges' = Append(edges, Rule(d, s))
            /\ Answer(reply("Created"))
            /\ UNCHANGED <<flags, log>>

AddDependency(d, s) ==
    LET c == Dependency_full_clean(edges, d, s)
        reply(outcome) ==
            [Response("AddDependency", d, s, "", <<>>, outcome, c.path,
                      c.searched)
             EXCEPT !.visited = c.visited, !.expansions = c.expansions]
    IN IF ~Exists(flags, d) \/ ~Exists(flags, s)
       THEN /\ Answer(Response("AddDependency", d, s, "", <<>>, "NotFound",
                                <<>>, FALSE))
            /\ UNCHANGED storeVars
       ELSE IF HasRow(edges, d, s)
       THEN /\ Answer(Response("AddDependency", d, s, "", <<>>,
                                "DuplicateEdge", <<>>, FALSE))
            /\ UNCHANGED storeVars
       ELSE IF c.error # "ok"
       THEN /\ Answer(reply(c.error))
            /\ UNCHANGED storeVars
       ELSE /\ edges' = Append(edges, Rule(d, s))
            /\ Answer(reply("Created"))
            /\ UNCHANGED <<flags, log>>

(***************************************************************************)
(* Dependency.delete(): the i-th row of the table is removed.              *)
(***************************************************************************)
(* Variant of the deletion that removes the oldest row. *)
DeleteDependency_FirstRow(i) ==
    /\ i \in DOMAIN edges
    /\ edges' = Tail(edges)
    /\ Answer(Response("DeleteDependency", edges[i].dependent_flag,
                       edges[i].source_flag, "", <<>>, "Deleted", <<>>, FALSE))
    /\ UNCHANGED <<flags, log>>

DeleteDependency(i) ==
    /\ i \in DOMAIN edges
    /\ edges' = SubSeq(edges, 1, i - 1) \o SubSeq(edges, i + 1, Len(edges))
    /\ Answer(Response("DeleteDependency", edges[i].dependent_flag,
                       edges[i].source_flag, "", <<>>, "Deleted", <<>>, FALSE))
    /\ UNCHANGED <<flags, log>>

(***************************************************************************)
(* AuditLog.AuditLogType: the members of the enumeration.                  *)
(***************************************************************************)
AuditLogType ==
    [CREATE |-> "create", TOGGLE |-> "toggle",
     AUTO_DISABLE |-> "auto_disable", DEPENDENCY_ADD |-> "dependency_add"]

AuditLogRow(f, t) == [flag |-> f, log_type |-> t]

(***************************************************************************)
(* The loop of FeatureFlagRetrieveSerializer.create inside                 *)
(* transaction.atomic(): for each listed title, look the source up, create *)
(* the Dependency (Dependency.save) and add an AuditLog row for the        *)
(* source. The first error ends the loop.                                  *)
(***************************************************************************)
RECURSIVE create_dependencies(_, _, _, _, _)

create_dependencies(fl, ed, lg, feature_flag, deps) ==
    IF deps = <<>>
    THEN [error |-> "ok", edges |-> ed, log |-> lg]
    ELSE IF Head(deps) \notin TitlesOf(fl)
    THEN [error |-> "UnknownSourceFlag", edges |-> ed, log |-> lg]
    ELSE LET source_flag == GetByTitle(fl, Head(deps))
             c == Dependency_full_clean(ed, feature_flag, source_flag)
         IN IF c.error # "ok"
            THEN [error |-> c.error, edges |-> ed, log |-> lg]
            ELSE create_dependencies(fl,
                     Append(ed, Rule(feature_flag, source_flag)),
                     Append(lg, AuditLogRow(source_flag, AuditLogType.CREATE)),
                     feature_flag, Tail(deps))

(***************************************************************************)
(* POST /api/featureflags/ : serializer validation (unique title, every    *)
(* listed source title exists), then FeatureFlagRetrieveSerializer.create. *)
(* A new row has no primary key yet, so FeatureFlag.save skips full_clean. *)
(* An error inside the transaction rolls the whole transaction back.       *)
(***************************************************************************)
(* Variant of the request without transaction.atomic(): what was written   *)
(* before the error stays.                                                 *)
CreateFlag_NoTransaction(title, enabled, deps) ==
    LET feature_flag == Len(flags) + 1
        created == Append(flags, [title |-> title, is_enabled |-> enabled])
        r == create_dependencies(created, edges, log, feature_flag, deps)
        reply(flag, outcome) ==
            [Response("CreateFlag", flag, NoFlag, title, deps, outcome,
                      <<>>, FALSE) EXCEPT !.is_enabled = enabled]
    IN IF title \in TitlesOf(flags)
       THEN /\ Answer(reply(NoFlag, "DuplicateTitle"))
            /\ UNCHANGED storeVars
       ELSE IF \E i \in DOMAIN deps : deps[i] \notin TitlesOf(flags)
       THEN /\ Answer(reply(NoFlag, "UnknownSourceFlag"))
            /\ UNCHANGED storeVars
       ELSE /\ flags' = created
            /\ edges' = r.edges
            /\ log' = r.log
            /\ Answer(IF r.error # "ok"
                      THEN reply(NoFlag, r.error)
                      ELSE [reply(feature_flag, "Created") EXCEPT
                               !.is_active =
                                   is_active(created, r.edges, feature_flag)])

(* Variant of the request whose audit rows are written outside the         *)
(* transaction: the flag and the dependencies are rolled back on an error, *)
(* the audit rows written before it stay.                                  *)
CreateFlag_AuditKept(title, enabled, deps) ==
    LET feature_flag == Len(flags) + 1
        created == Append(flags, [title |-> title, is_enabled |-> enabled])
        r == create_dependencies(created, edges, log, feature_flag, deps)
        reply(flag, outcome) ==
            [Response("CreateFlag", flag, NoFlag, title, deps, outcome,
                      <<>>, FALSE) EXCEPT !.is_enabled = enabled]
    IN IF title \in TitlesOf(flags)
       THEN /\ Answer(reply(NoFlag, "DuplicateTitle"))
            /\ UNCHANGED storeVars
       ELSE IF \E i \in DOMAIN deps : deps[i] \notin TitlesOf(flags)
       THEN /\ Answer(reply(NoFlag, "UnknownSourceFlag"))
            /\ UNCHANGED storeVars
       ELSE IF r.error # "ok"
       THEN /\ Answer(reply(NoFlag, r.error))
            /\ log' = r.log
            /\ UNCHANGED <<flags, edges>>
       ELSE /\ flags' = created
            /\ edges' = r.edges
            /\ log' = r.log
            /\ Answer([reply(feature_flag, "Created") EXCEPT
                          !.is_active = is_active(created, r.edges, feature_flag)])

CreateFlag(title, enabled, deps) ==
    LET feature_flag == Len(flags) + 1
        created == Append(flags, [title |-> title, is_enabled |-> enabled])
        r == create_dependencies(created, edges, log, feature_flag, deps)
        reply(flag, outcome) ==
            [Response("CreateFlag", flag, NoFlag, title, deps, outcome,
                      <<>>, FALSE) EXCEPT !.is_enabled = enabled]
    IN IF title \in TitlesOf(flags)
       THEN /\ Answer(reply(NoFlag, "DuplicateTitle"))
            /\ UNCHANGED storeVars
       ELSE IF \E i \in DOMAIN deps : deps[i] \notin TitlesOf(flags)
       THEN /\ Answer(reply(NoFlag, "UnknownSourceFlag"))
            /\ UNCHANGED storeVars
       ELSE IF r.error # "ok"
       THEN /\ Answer(reply(NoFlag, r.error))
            /\ UNCHANGED storeVars
       ELSE /\ flags' = created
            /\ edges' = r.edges
            /\ log' = r.log
            /\ Answer([reply(feature_flag, "Created") EXCEPT
                          !.is_active = is_active(created, r.edges, feature_flag)])

(***************************************************************************)
(* GET /api/featureflags/<pk>/ : the flag as FeatureFlagRetrieveSerializer *)
(* renders it; its is_active field is the value of FeatureFlag.is_active.  *)
(***************************************************************************)
GetFlag(f) ==
    LET reply(outcome) ==
            Response("GetFlag", f, NoFlag, "", <<>>, outcome, <<>>, FALSE)
    IN /\ IF ~Exists(flags, f)
          THEN Answer(reply("NotFound"))
          ELSE Answer([reply("Found") EXCEPT
                          !.title = flags[f].title,
                          !.is_active = is_active(flags, edges, f)])
       /\ UNCHANGED storeVars

(* Variant of the toggle in which disabling a flag also disables the       *)
(* flags it depends on.                                                    *)
ToggleFlag_DisableSources(f) ==
    LET reply(outcome) ==
            Response("ToggleFlag", f, NoFlag, "", <<>>, outcome, <<>>, FALSE)
    IN IF ~Exists(flags, f)
       THEN /\ Answer(reply("NotFound"))
            /\ UNCHANGED storeVars
       ELSE LET is_enabled == ~flags[f].is_enabled
            IN IF FeatureFlag_clean(flags, edges, f, is_enabled) # "ok"
               THEN /\ Answer([reply("UnmetDependencies") EXCEPT
                                   !.blockers =
                                       blocking_dependencies(flags, edges, f)])
                    /\ UNCHANGED storeVars
               ELSE /\ flags' = [g \in DOMAIN flags |->
                                   IF g = f \/ (~is_enabled /\ g \in Sources(edges, f))
                                   THEN [flags[g] EXCEPT !.is_enabled = is_enabled]
                                   ELSE flags[g]]
                    /\ log' = log
                    /\ Answer(reply("ServerError"))
                    /\ UNCHANGED edges

(***************************************************************************)
(* POST /api/featureflags/<pk>/toggle/ : feature_flag_toggle calls         *)
(* FeatureFlagToggleSerializer.update, which flips is_enabled and saves    *)
(* (FeatureFlag.save runs full_clean, hence FeatureFlag.clean, then writes *)
(* the row). The AuditLog call that follows the save names                 *)
(* AuditLogType.FLAG_TOGGLE, which is not a member of the enumeration, so  *)
(* the request ends in an unhandled AttributeError after the row is        *)
(* written (the database runs in autocommit): no AuditLog row is added and *)
(* nothing else is touched.                                                *)
(***************************************************************************)
ToggleFlag(f) ==
    LET reply(outcome) ==
            Response("ToggleFlag", f, NoFlag, "", <<>>, outcome, <<>>, FALSE)
    IN IF ~Exists(flags, f)
       THEN /\ Answer(reply("NotFound"))
            /\ UNCHANGED storeVars
       ELSE LET is_enabled == ~flags[f].is_enabled
            IN IF FeatureFlag_clean(flags, edges, f, is_enabled) # "ok"
               THEN /\ Answer([reply("UnmetDependencies") EXCEPT
                                   !.blockers =
                                       blocking_dependencies(flags, edges, f)])
                    /\ UNCHANGED storeVars
               ELSE /\ flags' = [flags EXCEPT ![f].is_enabled = is_enabled]
                    /\ IF "FLAG_TOGGLE" \in DOMAIN AuditLogType
                       THEN /\ log' = log \o
                                   <<AuditLogRow(f, AuditLogType.FLAG_TOGGLE),
                                     AuditLogRow(f, AuditLogType.TOGGLE)>>
                            /\ Answer(reply("Toggled"))
                       ELSE /\ log' = log
                            /\ Answer(reply("ServerError"))
                    /\ UNCHANGED edges

(***************************************************************************)
(* Inputs.                                                                 *)
(***************************************************************************)
NextTitle(fl, n) == IF Len(fl) < n THEN {Titles[Len(fl) + 1]} ELSE {}

FreshTitles(fl) == NextTitle(fl, MaxFlags)

SourceTitleInputs(fl) == TitlesOf(fl) \cup {UnknownTitle}

SeqsUpTo(S, n) == UNION {[1..k -> S] : k \in 0..n}

(* A request with a new title carries any list of at most MaxDeps source   *)
(* titles; a request that repeats a title carries none.                    *)
CreateInputs(fl) ==
    (FreshTitles(fl) \X SeqsUpTo(SourceTitleInputs(fl), MaxDeps))
        \cup (TitlesOf(fl) \X {<<>>})

(* Primary keys a client may send: those of the rows and one of no row.    *)
IdInputs(fl) == 1..(Len(fl) + 1)

Next ==
    /\ \/ \E in \in CreateInputs(flags), b \in BOOLEAN :
             CreateFlag(in[1], b, in[2])
       \/ \E f \in IdInputs(flags) : GetFlag(f)
       \/ \E f \in IdInputs(flags) : ToggleFlag(f)
       \/ \E d, s \in IdInputs(flags) : AddDependency(d, s)
       \/ \E i \in DOMAIN edges : DeleteDependency(i)
    /\ UNCHANGED <<procs, reader, trail>>

Spec == Init /\ [][Next]_vars

(***************************************************************************)
(* One request served against a loaded graph: the tables hold n flags with *)
(* any enabled bits and any acyclic set of dependencies (rows in the order *)
(* in which sorted insertion would have written them).                     *)
(***************************************************************************)
RECURSIVE SortedRules(_)

SortedRules(S) ==
    IF S = {}
    THEN <<>>
    ELSE LET m == CHOOSE x \in S : \A y \in S :
                      \/ x[1] < y[1]
                      \/ x[1] = y[1] /\ x[2] <= y[2]
         IN <<Rule(m[1], m[2])>> \o SortedRules(S \ {m})

Pairs(n) == {p \in (1..n) \X (1..n) : p[1] # p[2]}

Loaded(n) ==
    /\ flags \in {[i \in 1..n |-> [title |-> Titles[i], is_enabled |-> b[i]]] :
                  b \in [1..n -> BOOLEAN]}
    /\ edges \in {ed \in {SortedRules(S) : S \in SUBSET Pairs(n)} : Acyclic(ed)}
    /\ log = <<>>
    /\ last = NoRequest
    /\ prev = Store
    /\ procs = [p \in Procs |-> IdleProc]
    /\ reader = IdleReader
    /\ trail = <<>>

InitGraph == Loaded(GraphFlags)

NextGraph ==
    /\ last = NoRequest
    /\ \/ \E f \in IdInputs(flags) : GetFlag(f)
       \/ \E f \in IdInputs(flags) : ToggleFlag(f)
       \/ \E d, s \in IdInputs(flags) : AddDependency(d, s)
       \/ \E i \in DOMAIN edges : DeleteDependency(i)
    /\ UNCHANGED <<procs, reader, trail>>

SpecGraph == InitGraph /\ [][NextGraph]_vars

(***************************************************************************)
(* Several workers. The database runs in autocommit and the views take no  *)
(* lock and open no transaction around validation and save, so a request   *)
(* is two steps: its validation queries, then its INSERT or UPDATE. Other  *)
(* workers' steps may fall between the two.                                *)
(***************************************************************************)
Request(op, flag, source, title, is_enabled) ==
    [pc |-> "validated", op |-> op, flag |-> flag, source |-> source,
     title |-> title, is_enabled |-> is_enabled, outcome |-> "none"]

Done(r, outcome) == [r EXCEPT !.pc = "done", !.outcome = outcome]

InFlight(p, op) == procs[p].pc = "validated" /\ procs[p].op = op

(* serializer.is_valid() of FeatureFlagRetrieveSerializer: the title is    *)
(* looked up (UniqueValidator of the unique title field).                  *)
CreateValidate(p, title, enabled) ==
    LET r == Request("CreateFlag", NoFlag, NoFlag, title, enabled)
    IN /\ procs[p].pc # "validated"
       /\ procs' = [procs EXCEPT ![p] =
              IF title \in TitlesOf(flags) THEN Done(r, "DuplicateTitle") ELSE r]
       /\ UNCHANGED <<flags, edges, log, last, prev, reader, trail>>

(* FeatureFlagRetrieveSerializer.create without dependencies: the INSERT.  *)
(* The unique index on title refuses a second row with the title; the      *)
(* IntegrityError is not caught by the view.                               *)
CreateCommit(p) ==
    /\ InFlight(p, "CreateFlag")
    /\ IF procs[p].title \in TitlesOf(flags)
       THEN /\ procs' = [procs EXCEPT ![p] = Done(@, "ServerError")]
            /\ UNCHANGED flags
       ELSE /\ flags' = Append(flags, [title |-> procs[p].title,
                                       is_enabled |-> procs[p].is_enabled])
            /\ procs' = [procs EXCEPT ![p] =
                   Done([@ EXCEPT !.flag = Len(flags) + 1], "Created")]
    /\ UNCHANGED <<edges, log, last, prev, reader, trail>>

(* serializer.is_valid() of DependencySerializer and Dependency.full_clean *)
(* (called by Dependency.save before the INSERT).                          *)
AddValidate(p, d, s) ==
    LET r == Request("AddDependency", d, s, "", FALSE)
        c == Dependency_full_clean(edges, d, s)
    IN /\ procs[p].pc # "validated"
       /\ procs' = [procs EXCEPT ![p] =
              IF ~Exists(flags, d) \/ ~Exists(flags, s) THEN Done(r, "NotFound")
              ELSE IF HasRow(edges, d, s) THEN Done(r, "DuplicateEdge")
              ELSE IF c.error # "ok" THEN Done(r, c.error)
              ELSE r]
       /\ UNCHANGED <<flags, edges, log, last, prev, reader, trail>>

(* super().save() of Dependency.save: the INSERT. The unique_together      *)
(* index refuses a second row for the pair; DependencySerializer.create    *)
(* catches the IntegrityError.                                             *)
(* Variant of the INSERT on a table without the unique index. *)
AddCommit_NoIndex(p) ==
    /\ InFlight(p, "AddDependency")
    /\ edges' = Append(edges, Rule(procs[p].flag, procs[p].source))
    /\ procs' = [procs EXCEPT ![p] = Done(@, "Created")]
    /\ UNCHANGED <<flags, log, last, prev, reader, trail>>

AddCommit(p) ==
    /\ InFlight(p, "AddDependency")
    /\ IF HasRow(edges, procs[p].flag, procs[p].source)
       THEN /\ procs' = [procs EXCEPT ![p] = Done(@, "DuplicateEdge")]
            /\ UNCHANGED edges
       ELSE /\ edges' = Append(edges, Rule(procs[p].flag, procs[p].source))
            /\ procs' = [procs EXCEPT ![p] = Done(@, "Created")]
    /\ UNCHANGED <<flags, log, last, prev, reader, trail>>

(* feature_flag_toggle up to the row write: the flag is fetched, its       *)
(* is_enabled is flipped in memory, FeatureFlag.save runs full_clean.      *)
ToggleValidate(p, f) ==
    LET is_enabled == ~flags[f].is_enabled
        r == Request("ToggleFlag", f, NoFlag, "", is_enabled)
    IN /\ procs[p].pc # "validated"
       /\ procs' = [procs EXCEPT ![p] =
              IF ~Exists(flags, f)
              THEN Done(Request("ToggleFlag", f, NoFlag, "", FALSE), "NotFound")
              ELSE IF FeatureFlag_clean(flags, edges, f, is_enabled) # "ok"
              THEN Done(r, "UnmetDependencies")
              ELSE r]
       /\ UNCHANGED <<flags, edges, log, last, prev, reader, trail>>

(* super().save() of FeatureFlag.save: the UPDATE writes the instance's    *)
(* is_enabled; then the AuditLog call fails (see ToggleFlag).              *)
ToggleCommit(p) ==
    /\ InFlight(p, "ToggleFlag")
    /\ flags' = [flags EXCEPT ![procs[p].flag].is_enabled = procs[p].is_enabled]
    /\ procs' = [procs EXCEPT ![p] = Done(@, "ServerError")]
    /\ UNCHANGED <<edges, log, last, prev, reader, trail>>

(* Dependency.delete(): one DELETE statement. *)
DeleteRow(i) ==
    /\ i \in DOMAIN edges
    /\ edges' = SubSeq(edges, 1, i - 1) \o SubSeq(edges, i + 1, Len(edges))
    /\ UNCHANGED <<flags, log, last, prev, procs, reader, trail>>

NextConc ==
    \/ \E p \in Procs, t \in TitlesOf(flags) \cup NextTitle(flags, ConcFlags),
          b \in BOOLEAN : CreateValidate(p, t, b)
    \/ \E p \in Procs : CreateCommit(p)
    \/ \E p \in Procs, d, s \in IdInputs(flags) : AddValidate(p, d, s)
    \/ \E p \in Procs : AddCommit(p)
    \/ \E p \in Procs, f \in IdInputs(flags) : ToggleValidate(p, f)
    \/ \E p \in Procs : ToggleCommit(p)
    \/ \E i \in DOMAIN edges : DeleteRow(i)

SpecConc == Init /\ [][NextConc]_vars

(***************************************************************************)
(* A GET request evaluated query by query while writes are served.         *)
(* is_active reads the flag's own row, then, in                            *)
(* _check_dependencies_recursively, the rules of a flag                    *)
(* (dependency_rules_as_dependent.all()) and the row of each rule's source *)
(* (rule.source_flag), each with a query of its own against the tables as  *)
(* they are at that moment. `stack` is the recursion: one frame per call,  *)
(* with the visited titles of the call and the rules its loop has not yet  *)
(* reached. `snapshots` collects the value is_active had in every state of *)
(* the tables since the request began.                                     *)
(***************************************************************************)
Frame(fl, ed, f, visited_flags) ==
    [flag |-> f, visited_flags |-> visited_flags \cup {fl[f].title},
     rules |-> dependency_rules_as_dependent(ed, f)]

(* A call whose loop is exhausted returns True to its caller's loop. *)
RECURSIVE ReturnTrue(_)

ReturnTrue(stack) ==
    IF stack # <<>> /\ stack[Len(stack)].rules = <<>>
    THEN ReturnTrue(SubSeq(stack, 1, Len(stack) - 1))
    ELSE stack

Reading(r, stack) ==
    IF stack = <<>>
    THEN [r EXCEPT !.pc = "done", !.stack = <<>>, !.result = TRUE]
    ELSE [r EXCEPT !.pc = "reading", !.stack = stack]

ReturnFalse(r) == [r EXCEPT !.pc = "done", !.stack = <<>>, !.result = FALSE]

(* feature_flag_retrieve fetches the row; is_active tests its is_enabled   *)
(* and enters _check_dependencies_recursively, which reads its rules.      *)
ReadStart(f) ==
    LET r == [IdleReader EXCEPT !.flag = f,
                                !.snapshots = {is_active(flags, edges, f)}]
    IN /\ reader.pc # "reading"
       /\ Exists(flags, f)
       /\ reader' = IF ~flags[f].is_enabled
                    THEN ReturnFalse(r)
                    ELSE Reading(r, ReturnTrue(<<Frame(flags, edges, f, {})>>))
       /\ UNCHANGED <<flags, edges, log, last, prev, procs, trail>>

(* Variant of the loop iteration without the test for a title already in   *)
(* visited_flags.                                                          *)
ReadStep_NoRevisitTest ==
    /\ reader.pc = "reading"
    /\ LET n == Len(reader.stack)
           top == reader.stack[n]
           s == Head(top.rules).source_flag
           rest == [reader.stack EXCEPT ![n].rules = Tail(@)]
       IN reader' =
              IF ~flags[s].is_enabled THEN ReturnFalse(reader)
              ELSE Reading(reader, ReturnTrue(
                       Append(rest, Frame(flags, edges, s, top.visited_flags))))
    /\ UNCHANGED <<flags, edges, log, last, prev, procs, trail>>

(* One iteration of the loop of the innermost call: the source row of the  *)
(* next rule is fetched and tested, then the recursive call on it reads    *)
(* its rules.                                                              *)
ReadStep ==
    /\ reader.pc = "reading"
    /\ LET n == Len(reader.stack)
           top == reader.stack[n]
           s == Head(top.rules).source_flag
           rest == [reader.stack EXCEPT ![n].rules = Tail(@)]
       IN reader' =
              IF ~flags[s].is_enabled THEN ReturnFalse(reader)
              ELSE IF flags[s].title \in top.visited_flags THEN ReturnFalse(reader)
              ELSE Reading(reader, ReturnTrue(
                       Append(rest, Frame(flags, edges, s, top.visited_flags))))
    /\ UNCHANGED <<flags, edges, log, last, prev, procs, trail>>

(* A write served while the GET request is being evaluated. *)
Observe ==
    reader' = IF reader.pc = "reading"
              THEN [reader EXCEPT !.snapshots =
                       @ \cup {is_active(flags', edges', reader.flag)}]
              ELSE reader

InitRead == Loaded(MaxFlags)

NextRead ==
    \/ \E f \in DOMAIN flags : ReadStart(f)
    \/ ReadStep
    \/ /\ \E f \in DOMAIN flags : ToggleFlag(f)
       /\ Observe
       /\ UNCHANGED <<procs, trail>>

SpecRead == InitRead /\ [][NextRead]_vars

(***************************************************************************)
(* A short session against loaded tables: at most TrailLen requests that   *)
(* add or delete dependencies, served one at a time; every request is      *)
(* remembered with its response and the tables it found.                   *)
(***************************************************************************)
Remember ==
    trail' = Append(trail, [last |-> last', prev |-> prev'])

InitTrail == Loaded(MaxFlags)

NextTrail ==
    /\ Len(trail) < TrailLen
    /\ \/ \E d, s \in IdInputs(flags) : AddDependency(d, s)
       \/ \E i \in DOMAIN edges : DeleteDependency(i)
    /\ Remember
    /\ UNCHANGED <<procs, reader>>

SpecTrail == InitTrail /\ [][NextTrail]_vars

(***************************************************************************)
(* Tables loaded from elsewhere: n flags with any enabled bits and any set *)
(* of dependency rows, cycles and rows from a flag to itself included. A   *)
(* GET request is evaluated against them query by query; once started, the *)
(* evaluation keeps running.                                               *)
(***************************************************************************)
AllPairs(n) == (1..n) \X (1..n)

LoadedAny(n) ==
    /\ flags \in {[i \in 1..n |-> [title |-> Titles[i], is_enabled |-> b[i]]] :
                  b \in [1..n -> BOOLEAN]}
    /\ edges \in {SortedRules(S) : S \in SUBSET AllPairs(n)}
    /\ log = <<>>
    /\ last = NoRequest
    /\ prev = Store
    /\ procs = [p \in Procs |-> IdleProc]
    /\ reader = IdleReader
    /\ trail = <<>>

InitCyclic == LoadedAny(MaxFlags)

NextCyclicRead ==
    \/ \E f \in DOMAIN flags : ReadStart(f)
    \/ ReadStep

SpecCyclicRead == InitCyclic /\ [][NextCyclicRead]_vars /\ WF_vars(ReadStep)

(***************************************************************************)
(* The order of the rows of a query. The search reads the rules of a node  *)
(* with dependency_rules_as_dependent.all(): the queryset has no order_by  *)
(* and Dependency.Meta has no ordering, so the database is free to return  *)
(* the rows in any order. RowOrders(ed) are the orders it may read the     *)
(* table in; AddDependencyUnordered is the request served with any of      *)
(* them.                                                                   *)
(***************************************************************************)
RowOrders(ed) ==
    {[i \in DOMAIN ed |-> ed[p[i]]] : p \in Permutations(DOMAIN ed)}

AddDependencyUnordered(d, s) ==
    \E rows \in RowOrders(edges) :
        LET c == Dependency_full_clean(rows, d, s)
            reply(outcome) ==
                [Response("AddDependency", d, s, "", <<>>, outcome, c.path,
                          c.searched)
                 EXCEPT !.visited = c.visited, !.expansions = c.expansions]
        IN IF ~Exists(flags, d) \/ ~Exists(flags, s)
           THEN /\ Answer(Response("AddDependency", d, s, "", <<>>,
                                    "NotFound", <<>>, FALSE))
                /\ UNCHANGED storeVars
           ELSE IF HasRow(edges, d, s)
           THEN /\ Answer(Response("AddDependency", d, s, "", <<>>,
                                    "DuplicateEdge", <<>>, FALSE))
                /\ UNCHANGED storeVars
           ELSE IF c.error # "ok"
           THEN /\ Answer(reply(c.error))
                /\ UNCHANGED storeVars
           ELSE /\ edges' = Append(edges, Rule(d, s))
                /\ Answer(reply("Created"))
                /\ UNCHANGED <<flags, log>>

InitOrder == Loaded(MaxFlags)

NextOrder ==
    /\ last = NoRequest
    /\ \E d, s \in IdInputs(flags) : AddDependencyUnordered(d, s)
    /\ UNCHANGED <<procs, reader, trail>>

SpecOrder == InitOrder /\ [][NextOrder]_vars

(* At most MaxCalls requests to add a dependency, served one after the     *)
(* other against such tables.                                              *)
NextCyclic ==
    /\ Len(trail) < MaxCalls
    /\ \E d, s \in DOMAIN flags : AddDependency(d, s)
    /\ Remember
    /\ UNCHANGED <<procs, reader>>

SpecCyclic == InitCyclic /\ [][NextCyclic]_vars

(***************************************************************************)
(*                              Properties                                 *)
(***************************************************************************)
Committed(outcome) == outcome \in {"Created", "Deleted", "Toggled", "ServerError"}

LastAdd == last.op = "AddDependency" /\ last.outcome # "NotFound"

LastToggle == last.op = "ToggleFlag" /\ last.outcome # "NotFound"

(* C1: after any sequence of requests served one at a time from an empty   *)
(* store, the dependency rows contain no cycle.                            *)
C1_Acyclic == Acyclic(edges)

C1_Witness ==
    /\ Len(edges) = 3
    /\ last.op = "AddDependency"
    /\ last.outcome = "CycleDetected"

(* C2: AddDependency(d, s) with d # s and d reachable from s along the     *)
(* existing depends-on edges is rejected with CycleDetected and leaves the *)
(* dependency rows as they were.                                           *)
C2_CycleRejected ==
    (/\ LastAdd
     /\ last.flag # last.source
     /\ last.flag \in TransitiveSources(prev.edges, last.source))
        => /\ last.outcome = "CycleDetected"
           /\ edges = prev.edges

(* A rejected cycle through four flags. *)
C2_Witness ==
    /\ LastAdd
    /\ last.outcome = "CycleDetected"
    /\ Len(last.path) = 5
    /\ Cardinality(Range(last.path)) = 4
    /\ edges = prev.edges

LastGet == last.op = "GetFlag" /\ last.outcome = "Found"

(* C3: the is_active value returned for a flag f is true iff f is enabled  *)
(* and every direct dependency of f is active; for a flag without          *)
(* dependencies it is the enabled bit; it is false when some flag in the   *)
(* dependency chain of f is disabled.                                      *)
C3_IsActive ==
    LastGet =>
        LET f == last.flag
        IN /\ last.is_active <=>
                 (/\ flags[f].is_enabled
                  /\ \A s \in Sources(edges, f) : is_active(flags, edges, s))
           /\ Sources(edges, f) = {} => (last.is_active <=> flags[f].is_enabled)
           /\ (\E s \in TransitiveSources(edges, f) : ~flags[s].is_enabled)
                 => ~last.is_active

(* The query is answered false for an enabled flag whose direct            *)
(* dependencies are all enabled, because of a flag further down the chain. *)
C3_Witness ==
    /\ LastGet
    /\ ~last.is_active
    /\ flags[last.flag].is_enabled
    /\ Sources(edges, last.flag) # {}
    /\ \A s \in Sources(edges, last.flag) : flags[s].is_enabled
    /\ \E s \in TransitiveSources(edges, last.flag) : ~flags[s].is_enabled

(* C4: when ToggleFlag turns an enabled flag off, every flag that depends  *)
(* on it, directly or transitively, and was enabled is disabled when the   *)
(* call returns.                                                           *)
C4_CascadeDisables ==
    (/\ LastToggle
     /\ prev.flags[last.flag].is_enabled
     /\ ~flags[last.flag].is_enabled)
        => \A d \in TransitiveDependents(prev.edges, last.flag) :
               prev.flags[d].is_enabled => ~flags[d].is_enabled

(* C5: ToggleFlag on a disabled flag with a direct or transitive           *)
(* dependency that is not active fails with UnmetDependencies, and every   *)
(* enabled bit and the dependency rows are as before the call.             *)
C5_UnmetRejected ==
    (/\ LastToggle
     /\ ~prev.flags[last.flag].is_enabled
     /\ \E s \in TransitiveSources(prev.edges, last.flag) :
            ~is_active(prev.flags, prev.edges, s))
        => /\ last.outcome = "UnmetDependencies"
           /\ flags = prev.flags
           /\ edges = prev.edges

(* The rejection is caused by a flag two or more edges away. *)
C5_Witness ==
    /\ LastToggle
    /\ last.outcome = "UnmetDependencies"
    /\ \A s \in Sources(edges, last.flag) : flags[s].is_enabled
    /\ flags = prev.flags
    /\ edges = prev.edges

(* C6: check and commit of AddDependency are one atomic step, so that     *)
(* under any interleaving of concurrent AddDependency calls the committed  *)
(* dependency rows are acyclic in every reachable state.                   *)
C6_AcyclicUnderConcurrency ==
    \A f \in DOMAIN flags : f \notin TransitiveSources(edges, f)

CommittedToggle(p, f) ==
    /\ procs[p].pc = "done"
    /\ procs[p].op = "ToggleFlag"
    /\ procs[p].flag = f
    /\ procs[p].outcome \in {"Toggled", "ServerError"}

(* C7: writes are serializable; in particular two concurrent ToggleFlag    *)
(* calls on one flag that both commit leave its enabled bit at its         *)
(* original value. (Two calls that wrote the same value both read the flag *)
(* before either wrote it; the value they read is the negation of the one  *)
(* they wrote.)                                                            *)
C7_ConcurrentTogglesRestore ==
    \A p, q \in Procs : \A f \in DOMAIN flags :
        (/\ p # q
         /\ CommittedToggle(p, f)
         /\ CommittedToggle(q, f)
         /\ procs[p].is_enabled = procs[q].is_enabled)
            => flags[f].is_enabled = ~procs[p].is_enabled

(* C8: the value an is_active query returns while writes are served is the *)
(* value is_active had in some single state of the tables between the      *)
(* start of the query and its return.                                      *)
C8_ConsistentSnapshot ==
    reader.pc = "done" => reader.result \in reader.snapshots

AutoDisableRows(d) ==
    {i \in (Len(prev.log) + 1)..Len(log) :
        log[i] = AuditLogRow(d, AuditLogType.AUTO_DISABLE)}

(* A flag that depends on the toggled flag along more than one path. *)
SharedDependent(ed, f, d) ==
    Cardinality(Sources(ed, d) \cap (TransitiveDependents(ed, f) \cup {f})) > 1

(* C9: in the cascade started by disabling a flag, every enabled flag that *)
(* depends on it, directly or transitively, is disabled and gets exactly   *)
(* one auto_disable row, also when some flag depends on it along several   *)
(* paths (the diamond).                                                    *)
C9_OneAutoDisableEach ==
    (/\ LastToggle
     /\ prev.flags[last.flag].is_enabled
     /\ ~flags[last.flag].is_enabled
     /\ \E d \in TransitiveDependents(prev.edges, last.flag) :
            SharedDependent(prev.edges, last.flag, d))
        => \A d \in TransitiveDependents(prev.edges, last.flag) :
               prev.flags[d].is_enabled =>
                   /\ ~flags[d].is_enabled
                   /\ Cardinality(AutoDisableRows(d)) = 1

(* C10: AddDependency(f, f) is rejected with SelfDependency, which is not  *)
(* the CycleDetected error, the cycle search is not run, and the           *)
(* dependency rows are as before (empty if they were empty).               *)
C10_SelfRejected ==
    (LastAdd /\ last.flag = last.source)
        => /\ last.outcome = "SelfDependency"
           /\ last.outcome # "CycleDetected"
           /\ ~last.searched
           /\ edges = prev.edges

C10_Witness ==
    /\ LastAdd
    /\ last.flag = last.source
    /\ last.outcome = "SelfDependency"
    /\ prev.edges = <<>>
    /\ edges = <<>>

(* The cycle a rejected AddDependency(d, s) reports: d, s, ..., d, no flag *)
(* but d twice, every element after the first depending on the next one.   *)
CyclePath(ed, d, s, path) ==
    /\ Len(path) >= 3
    /\ path[1] = d
    /\ path[2] = s
    /\ path[Len(path)] = d
    /\ \A i, j \in 2..Len(path) : path[i] = path[j] => i = j
    /\ \A i \in 2..(Len(path) - 1) : HasRow(ed, path[i], path[i + 1])

C12_NoFalsePositive ==
    (/\ LastAdd
     /\ last.flag # last.source
     /\ Acyclic(prev.edges)
     /\ ~HasRow(prev.edges, last.flag, last.source)
     /\ last.flag \notin TransitiveSources(prev.edges, last.source))
        => /\ last.outcome = "Created"
           /\ edges = Append(prev.edges, Rule(last.flag, last.source))

(* The edge is accepted although the search from the source meets a flag   *)
(* along two paths (s -> x -> y and s -> y).                               *)
C12_Witness ==
    /\ LastAdd
    /\ last.outcome = "Created"
    /\ edges = Append(prev.edges, Rule(last.flag, last.source))
    /\ \E x, y \in DOMAIN flags \ {last.flag, last.source} :
          /\ x # y
          /\ HasRow(prev.edges, last.source, x)
          /\ HasRow(prev.edges, last.source, y)
          /\ HasRow(prev.edges, x, y)

(* C13: for two distinct flags A and B with no edge between them, once     *)
(* AddDependency(A, B) has succeeded AddDependency(B, A) fails, whichever  *)
(* of the two flags is A: right after the successful call the reverse pair *)
(* does not pass Dependency.save, and a call for the reverse of an         *)
(* existing edge is answered CycleDetected and adds nothing.               *)
C13_SymmetricRejection ==
    /\ (/\ LastAdd
        /\ last.outcome = "Created"
        /\ ~HasRow(prev.edges, last.flag, last.source)
        /\ ~HasRow(prev.edges, last.source, last.flag))
           => Dependency_full_clean(edges, last.source, last.flag).error
                  = "CycleDetected"
    /\ (LastAdd /\ HasRow(prev.edges, last.source, last.flag))
           => /\ last.outcome = "CycleDetected"
              /\ edges = prev.edges

(* The reverse of the edge inserted last is rejected; the store holds      *)
(* edges inserted from the lower to the higher primary key and from the    *)
(* higher to the lower.                                                    *)
C13_Witness ==
    /\ LastAdd
    /\ last.outcome = "CycleDetected"
    /\ Len(edges) > 1
    /\ LET first == edges[1]
           latest == edges[Len(edges)]
       IN /\ first.dependent_flag < first.source_flag
          /\ latest.dependent_flag > latest.source_flag
          /\ last.flag = latest.source_flag
          /\ last.source = latest.dependent_flag
          /\ last.path = <<last.flag, last.source, last.flag>>

(* The requests of a session: rejected AddDependency(d, s), deletion of an *)
(* edge x -> y of the reported cycle, AddDependency(d, s) again.           *)
RetryAfterDelete ==
    /\ Len(trail) >= 3
    /\ LET first == trail[Len(trail) - 2].last
           second == trail[Len(trail) - 1].last
           third == trail[Len(trail)].last
       IN /\ first.op = "AddDependency"
          /\ first.outcome = "CycleDetected"
          /\ second.op = "DeleteDependency"
          /\ \E i \in 2..(Len(first.path) - 1) :
                /\ first.path[i] = second.flag
                /\ first.path[i + 1] = second.source
          /\ third.op = "AddDependency"
          /\ third.flag = first.flag
          /\ third.source = first.source

Retried == edges = Append(prev.edges, Rule(last.flag, last.source))

(* C14 as stated: if AddDependency(d, s) was rejected with CycleDetected,  *)
(* then after deleting an existing edge that was part of the would-be      *)
(* cycle, the same AddDependency(d, s) succeeds and the edge is added.     *)
C14_DeletionPermits ==
    RetryAfterDelete => (last.outcome = "Created" /\ Retried)

(* The edges of the second request's tables without the edge it deletes.   *)
Remaining ==
    LET second == trail[Len(trail) - 1]
        Kept(rule) == rule # Rule(second.last.flag, second.last.source)
    IN SelectSeq(second.prev.edges, Kept)

(* C14 amended: ... the same AddDependency(d, s) succeeds and the edge is  *)
(* added, provided d is not reachable from s along the edges that remain   *)
(* (the deleted edge was part of every would-be cycle).                    *)
C14_DeletionPermitsLastCycle ==
    (/\ RetryAfterDelete
     /\ last.flag \notin TransitiveSources(Remaining, last.source))
        => (last.outcome = "Created" /\ Retried)

(* The rejected cycle ran through three flags; after the deletion the same *)
(* request is accepted.                                                    *)
C14_Witness ==
    /\ RetryAfterDelete
    /\ Len(trail[Len(trail) - 2].last.path) = 4
    /\ last.outcome = "Created"
    /\ Retried

(* No two rows of the table are for the same (dependent, source) pair.     *)
UniquePairs(ed) == \A i, j \in DOMAIN ed : ed[i] = ed[j] => i = j

(* A worker answers an AddDependency request in this step. *)
AnswersAdd(p) ==
    /\ procs'[p] # procs[p]
    /\ procs'[p].pc = "done"
    /\ procs'[p].op = "AddDependency"

(* C15: in every state, also those reached by workers that serve           *)
(* AddDependency for the same pair at the same time, the table holds at    *)
(* most one row per (dependent, source) pair; and an AddDependency         *)
(* answered while the table holds its pair is answered DuplicateEdge and   *)
(* leaves the rows unchanged.                                              *)
C15_UniqueEdges ==
    /\ [](UniquePairs(edges))
    /\ [][\A p \in Procs :
            (AnswersAdd(p) /\ HasRow(edges, procs'[p].flag, procs'[p].source))
                => /\ procs'[p].outcome = "DuplicateEdge"
                   /\ edges' = edges]_vars

(* Two workers have answered AddDependency for one pair, one with Created  *)
(* and one with DuplicateEdge, and the table holds the pair once.          *)
C15_Witness ==
    \E p, q \in Procs :
        /\ procs[p].pc = "done" /\ procs[q].pc = "done"
        /\ procs[p].op = "AddDependency" /\ procs[q].op = "AddDependency"
        /\ procs[p].flag = procs[q].flag
        /\ procs[p].source = procs[q].source
        /\ procs[p].outcome = "Created"
        /\ procs[q].outcome = "DuplicateEdge"
        /\ edges = <<Rule(procs[p].flag, procs[p].source)>>

LastCreate == last.op = "CreateFlag"

(* C16: a CreateFlag request one of whose listed dependencies cannot be    *)
(* added (unknown source title, a source listed twice, cycle or            *)
(* self-dependency) fails, and afterwards the flags, the dependencies and  *)
(* the audit rows are exactly those before the call.                       *)
C16_CreateAllOrNothing ==
    LastCreate =>
        /\ (\/ \E i \in DOMAIN last.deps : last.deps[i] \notin TitlesOf(prev.flags)
            \/ \E i, j \in DOMAIN last.deps :
                  i # j /\ last.deps[i] = last.deps[j])
              => last.outcome # "Created"
        /\ last.outcome # "Created"
              => /\ flags = prev.flags
                 /\ edges = prev.edges
                 /\ log = prev.log

(* The second of two listed dependencies fails (the source is listed       *)
(* twice), after the flag and the first dependency were written.           *)
C16_Witness ==
    /\ LastCreate
    /\ last.outcome = "DuplicateEdge"
    /\ Len(last.deps) = 2
    /\ last.title \notin TitlesOf(flags)
    /\ flags = prev.flags
    /\ edges = prev.edges
    /\ log = prev.log

(* The flags a CreateFlag request lists as sources, in the tables it found. *)
ListedSources ==
    {GetByTitle(prev.flags, last.deps[i]) : i \in DOMAIN last.deps}

(* C17: CreateFlag(title, enabled = true, sources) with a listed source    *)
(* that is not active fails with UnmetDependencies and commits neither the *)
(* flag nor an edge.                                                       *)
C17_CreateUnmetRejected ==
    (/\ LastCreate
     /\ last.title \notin TitlesOf(prev.flags)
     /\ \A i \in DOMAIN last.deps : last.deps[i] \in TitlesOf(prev.flags)
     /\ last.is_enabled
     /\ \E s \in ListedSources : ~is_active(prev.flags, prev.edges, s))
        => /\ last.outcome = "UnmetDependencies"
           /\ flags = prev.flags
           /\ edges = prev.edges

(* C18: every successful state-changing operation appends exactly one      *)
(* audit row of the matching kind for the affected flag: CreateFlag one    *)
(* `create` row for the new flag, ToggleFlag one `toggle` row for the      *)
(* toggled flag, AddDependency one `dependency_add` row.                   *)
C18_OneEventPerChange ==
    /\ (LastCreate /\ last.outcome = "Created")
          => log = Append(prev.log, AuditLogRow(last.flag, "create"))
    /\ (LastToggle /\ flags # prev.flags)
          => log = Append(prev.log, AuditLogRow(last.flag, "toggle"))
    /\ (LastAdd /\ last.outcome = "Created")
          => \E f \in {last.flag, last.source} :
                log = Append(prev.log, AuditLogRow(f, "dependency_add"))

(* C19: a ToggleFlag call on an existing flag ends either in success with  *)
(* the flag's enabled bit flipped or in UnmetDependencies, never in an     *)
(* untyped error; when it does not succeed, the flags and the dependencies *)
(* are as before the call.                                                 *)
C19_ToggleOutcomes ==
    LastToggle =>
        \/ /\ last.outcome = "Toggled"
           /\ flags[last.flag].is_enabled = ~prev.flags[last.flag].is_enabled
        \/ /\ last.outcome = "UnmetDependencies"
           /\ flags = prev.flags
           /\ edges = prev.edges

(* C20: while a flag s is disabled, is_active is false for every flag that *)
(* depends on s, directly or transitively, whatever that flag's own bit;   *)
(* and a flag whose own bit is false is inactive even when all its         *)
(* dependencies are active.                                                *)
C20_DisabledSourceDeactivates ==
    /\ \A s \in DOMAIN flags :
          ~flags[s].is_enabled
              => \A d \in TransitiveDependents(edges, s) :
                    ~is_active(flags, edges, d)
    /\ \A d \in DOMAIN flags :
          ~flags[d].is_enabled => ~is_active(flags, edges, d)

(* A toggle has just disabled a flag; a flag that depends on it through    *)
(* another flag is enabled, as are all its direct dependencies, and is     *)
(* inactive.                                                               *)
C20_Witness ==
    /\ LastToggle
    /\ prev.flags[last.flag].is_enabled
    /\ ~flags[last.flag].is_enabled
    /\ \E d \in TransitiveDependents(edges, last.flag) :
          /\ last.flag \notin Sources(edges, d)
          /\ flags[d].is_enabled
          /\ \A x \in Sources(edges, d) : flags[x].is_enabled
          /\ ~is_active(flags, edges, d)

(* What AddDependency(d, s) answers according to the edges alone.          *)
OutcomeByEdges(ed, d, s) ==
    IF HasRow(ed, d, s) THEN "DuplicateEdge"
    ELSE IF d = s THEN "SelfDependency"
    ELSE IF d \in TransitiveSources(ed, s) THEN "CycleDetected"
    ELSE "Created"

(* C21: the outcome of AddDependency(d, s), accepted or rejected, and the  *)
(* reported cycle path are determined by the edges and the pair (d, s):    *)
(* whatever the enabled bits of the flags are, the answer is the one the   *)
(* edges call for, and the path is the one the search finds in the edges.  *)
C21_OutcomeIgnoresEnabledBits ==
    LastAdd =>
        /\ last.outcome = OutcomeByEdges(prev.edges, last.flag, last.source)
        /\ last.path = Dependency_clean(prev.edges, last.flag, last.source).path

(* A cycle through three flags is rejected although every flag on it is    *)
(* disabled.                                                               *)
C21_Witness ==
    /\ LastAdd
    /\ last.outcome = "CycleDetected"
    /\ Len(last.path) = 4
    /\ \A i \in DOMAIN last.path : ~flags[last.path[i]].is_enabled

(* No two rows of the flag table have the same title.                      *)
UniqueTitles(fl) == \A i, j \in DOMAIN fl : fl[i].title = fl[j].title => i = j

(* A worker answers a CreateFlag request in this step. *)
AnswersCreate(p) ==
    /\ procs'[p] # procs[p]
    /\ procs'[p].pc = "done"
    /\ procs'[p].op = "CreateFlag"

(* C22: in every state, also those reached by workers that serve           *)
(* CreateFlag at the same time, no two flags share a title; and a          *)
(* CreateFlag answered while the table holds its title is answered         *)
(* DuplicateTitle and leaves the flags unchanged.                          *)
C22_UniqueTitles ==
    /\ [](UniqueTitles(flags))
    /\ [][\A p \in Procs :
            (AnswersCreate(p) /\ procs'[p].title \in TitlesOf(flags))
                => /\ procs'[p].outcome = "DuplicateTitle"
                   /\ flags' = flags]_vars

(* The flags with the enabled bit of f set to b.                           *)
WithBit(fl, f, b) == [fl EXCEPT ![f].is_enabled = b]

(* can_be_active(f) is the same for either value of f's own bit and is the *)
(* conjunction of is_active over the direct dependencies of f; is_active   *)
(* is the flag's bit and can_be_active; a toggle of a disabled flag writes *)
(* the enabled bit exactly when can_be_active held.                        *)
CanBecomeEnabledLaw ==
    /\ \A f \in DOMAIN flags :
          /\ \A b \in BOOLEAN :
                can_be_active(WithBit(flags, f, b), edges, f)
                    = can_be_active(flags, edges, f)
          /\ can_be_active(flags, edges, f)
                = (\A s \in Sources(edges, f) : is_active(flags, edges, s))
          /\ is_active(flags, edges, f)
                = (flags[f].is_enabled /\ can_be_active(flags, edges, f))
    /\ (LastToggle /\ ~prev.flags[last.flag].is_enabled)
          => (flags[last.flag].is_enabled
                 <=> can_be_active(prev.flags, prev.edges, last.flag))

(* C23: canBecomeEnabled(f) does not depend on f's own enabled bit and is  *)
(* the conjunction of isActive(s) over the direct dependencies s of f, so  *)
(* isActive(f) = f.enabled and canBecomeEnabled(f); ToggleFlag to enabled  *)
(* succeeds exactly when canBecomeEnabled(f) is true.                      *)
C23_CanBecomeEnabled ==
    /\ CanBecomeEnabledLaw
    /\ (LastToggle /\ ~prev.flags[last.flag].is_enabled)
          => (last.outcome = "Toggled"
                 <=> can_be_active(prev.flags, prev.edges, last.flag))

(* C24: when enabling a flag f fails with UnmetDependencies, the reported  *)
(* list of blockers is not empty, holds only flags whose own enabled bit   *)
(* is false and that f depends on, directly or transitively, and holds     *)
(* each of them at most once, also when a disabled flag is reachable from  *)
(* f along several paths.                                                  *)
C24_Blockers ==
    (LastToggle /\ last.outcome = "UnmetDependencies")
        => /\ last.blockers # <<>>
           /\ \A i \in DOMAIN last.blockers :
                 /\ ~flags[last.blockers[i]].is_enabled
                 /\ last.blockers[i] \in TransitiveSources(edges, last.flag)
           /\ \A i, j \in DOMAIN last.blockers :
                 last.blockers[i] = last.blockers[j] => i = j

(* The flag lies on a cycle of dependency rows.                            *)
OnCycle(ed, f) == f \in TransitiveSources(ed, f)

(* C25: is_active(f) terminates on every finite state of the tables, also  *)
(* when the loaded rows contain a cycle: an evaluation that has started    *)
(* ends, its recursion is never deeper than the number of flags, its       *)
(* result is that of is_active, and for a flag on a cycle the result is    *)
(* false (the branch that meets a flag of the current path counts as not   *)
(* active); no error is raised.                                            *)
C25_IsActiveTerminates ==
    /\ [](Len(reader.stack) <= Len(flags))
    /\ [](reader.pc = "done"
            => /\ reader.result = is_active(flags, edges, reader.flag)
               /\ OnCycle(edges, reader.flag) => ~reader.result)
    /\ (reader.pc = "reading") ~> (reader.pc = "done")

(* The evaluation of a flag on a cycle through all flags, all of them      *)
(* enabled, has ended with the result false.                               *)
C25_Witness ==
    /\ reader.pc = "done"
    /\ ~reader.result
    /\ \A f \in DOMAIN flags : flags[f].is_enabled
    /\ Len(edges) = Len(flags)
    /\ \A f \in DOMAIN flags : TransitiveSources(edges, f) = DOMAIN flags

(* C26: on any edge set, cyclic ones included, the cycle search of         *)
(* AddDependency(d, s) returns; it expands each flag at most once in a     *)
(* call (the expansions are as many as the flags in visited, all of them   *)
(* the source or flags reachable from it); visited and the path start      *)
(* empty in every call, so the answer is the one the edges call for and    *)
(* the visited set holds nothing of the call before it.                    *)
C26_SearchOncePerCall ==
    (LastAdd /\ last.searched) =>
        /\ last.expansions = Cardinality(last.visited)
        /\ last.expansions <= Len(flags)
        /\ last.visited \subseteq
               {last.source} \cup TransitiveSources(prev.edges, last.source)
        /\ last.outcome = OutcomeByEdges(prev.edges, last.flag, last.source)
        /\ last.outcome = "CycleDetected" =>
               /\ ~HasRow(prev.edges, last.flag, last.source)
               /\ CyclePath(prev.edges, last.flag, last.source, last.path)

(* C26 witness: the second request of a session on a cyclic edge set is    *)
(* rejected for a cycle after a search that expanded at least two flags,   *)
(* one of them already expanded by the search of the first request.        *)
C26_Witness ==
    /\ Len(trail) = 2
    /\ ~Acyclic(prev.edges)
    /\ trail[1].last.searched
    /\ LastAdd /\ last.outcome = "CycleDetected"
    /\ last.expansions >= 2
    /\ last.visited \cap trail[1].last.visited # {}

(* C27: the cycle path reported for a rejected AddDependency(d, s) is      *)
(* determined by the rows and the order they were inserted in: it is the   *)
(* path the search finds when it explores the rules of every flag in       *)
(* insertion order, also when several paths lead from s to d.              *)
C27_StableOrder ==
    (LastAdd /\ last.outcome = "CycleDetected") =>
        last.path = Dependency_clean(prev.edges, last.flag, last.source).path

(* C28: ToggleFlag(f) leaves the dependency rows as they are, and leaves   *)
(* the enabled bit of every flag that is neither f nor a direct or         *)
(* transitive dependent of f as it is, with no auto_disable row written    *)
(* for it; the same holds for every other flag that was disabled already   *)
(* or that is still active after the toggle.                               *)
C28_ToggleFrame ==
    LastToggle =>
        LET f == last.flag
            added == SubSeq(log, Len(prev.log) + 1, Len(log))
            Untouched(g) ==
                /\ flags[g] = prev.flags[g]
                /\ \A i \in DOMAIN added :
                       ~(added[i].flag = g
                         /\ added[i].log_type = AuditLogType.AUTO_DISABLE)
        IN /\ edges = prev.edges
           /\ DOMAIN flags = DOMAIN prev.flags
           /\ \A g \in DOMAIN flags \ {f} :
                  \/ g \in TransitiveDependents(prev.edges, f)
                     /\ prev.flags[g].is_enabled
                     /\ ~is_active(flags, edges, g)
                  \/ Untouched(g)

(* C28 witness: an enabled flag with an enabled source, an enabled         *)
(* dependent and a flag not connected to it has been disabled by           *)
(* ToggleFlag; the dependency rows are as before.                          *)
C28_Witness ==
    /\ LastToggle
    /\ prev.flags[last.flag].is_enabled
    /\ ~flags[last.flag].is_enabled
    /\ \E g \in Sources(edges, last.flag) : flags[g].is_enabled
    /\ \E g \in Dependents(edges, last.flag) : flags[g].is_enabled
    /\ \E g \in DOMAIN flags \ {last.flag} :
           /\ g \notin TransitiveSources(edges, last.flag)
           /\ g \notin TransitiveDependents(edges, last.flag)
    /\ edges = prev.edges

(* C29: after every write of a sequence of requests served one at a time   *)
(* (flag creation with or without dependencies, AddDependency, deletion of *)
(* a dependency, ToggleFlag), every enabled flag is active: no flag is     *)
(* enabled while a flag of its dependency chain is disabled.               *)
C29_EnabledFlagsActive ==
    \A f \in DOMAIN flags :
        flags[f].is_enabled =>
            /\ is_active(flags, edges, f)
            /\ \A s \in TransitiveSources(edges, f) : flags[s].is_enabled

(* C30: AddDependency(d, s), accepted or rejected, leaves the flags and    *)
(* their enabled bits as they are; when it is accepted the dependency rows *)
(* are the rows before it plus the row (d, s) and nothing else, also when  *)
(* d is enabled and s is disabled or not active; when it is rejected the   *)
(* rows are unchanged.                                                     *)
C30_AddDependencyFrame ==
    last.op = "AddDependency" =>
        /\ flags = prev.flags
        /\ IF last.outcome = "Created"
           THEN edges = Append(prev.edges, Rule(last.flag, last.source))
           ELSE edges = prev.edges

(* C30 witness: a dependency of an enabled flag on a disabled flag has     *)
(* been accepted; the dependent is still enabled and no longer active.     *)
C30_Witness ==
    /\ last.op = "AddDependency"
    /\ last.outcome = "Created"
    /\ flags[last.flag].is_enabled
    /\ ~flags[last.source].is_enabled
    /\ is_active(prev.flags, prev.edges, last.flag)
    /\ ~is_active(flags, edges, last.flag)
    /\ Len(edges) = Len(prev.edges) + 1

(* C31: ToggleFlag on an existing flag whose enabled bit is true is never  *)
(* rejected with UnmetDependencies, whatever the graph: also when its own  *)
(* dependencies are disabled and when enabled flags depend on it; the bit  *)
(* is written as false.                                                    *)
C31_DisableNotValidated ==
    (LastToggle /\ prev.flags[last.flag].is_enabled) =>
        /\ last.outcome # "UnmetDependencies"
        /\ ~flags[last.flag].is_enabled

(* C31 witness: ToggleFlag has disabled an enabled flag that had a         *)
(* disabled dependency and an enabled dependent.                           *)
C31_Witness ==
    /\ LastToggle
    /\ prev.flags[last.flag].is_enabled
    /\ ~flags[last.flag].is_enabled
    /\ last.outcome # "UnmetDependencies"
    /\ \E s \in Sources(prev.edges, last.flag) : ~prev.flags[s].is_enabled
    /\ \E g \in Dependents(prev.edges, last.flag) : prev.flags[g].is_enabled

(* C32: a write that fails validation appends no audit row: after a        *)
(* ToggleFlag refused with UnmetDependencies, an AddDependency refused     *)
(* with SelfDependency, CycleDetected or DuplicateEdge, or a CreateFlag    *)
(* with dependencies refused for any reason, the audit rows are those      *)
(* before the request.                                                     *)
C32_FailedWriteNoEvent ==
    (\/ LastToggle /\ last.outcome = "UnmetDependencies"
     \/ /\ last.op = "AddDependency"
        /\ last.outcome \in {"SelfDependency", "CycleDetected", "DuplicateEdge"}
     \/ LastCreate /\ last.deps # <<>> /\ last.outcome # "Created")
        => log = prev.log

(* C32 witness: the store already holds audit rows, and a CreateFlag whose *)
(* second listed dependency repeats the first has been refused after the   *)
(* audit row of the first was written; the audit rows are as before.       *)
C32_Witness ==
    /\ LastCreate
    /\ last.outcome = "DuplicateEdge"
    /\ Len(last.deps) = 2
    /\ prev.log # <<>>
    /\ log = prev.log

(* C33: when ToggleFlag(f) has flipped f from enabled to disabled and the  *)
(* very next request is ToggleFlag(f) again, the second request succeeds   *)
(* whenever every dependency of f is active, and after it the enabled bit  *)
(* of every flag and the dependency rows are what they were before the     *)
(* first request.                                                          *)
C33_ToggleTwiceRestores ==
    [][(/\ LastToggle
        /\ prev.flags[last.flag].is_enabled
        /\ ~flags[last.flag].is_enabled
        /\ last'.op = "ToggleFlag"
        /\ last'.flag = last.flag
        /\ \A s \in Sources(edges, last.flag) : is_active(flags, edges, s))
          => /\ last'.outcome = "Toggled"
             /\ flags' = prev.flags
             /\ edges' = prev.edges]_vars
====
